---- MODULE Spec2Model ----
(***************************************************************************)
(* parental-watchdog: the usage ledger, the interval merge, the warn/kill  *)
(* decision and the sampling loop of src/src/main.rs.                      *)
(*                                                                         *)
(* Strings that the program splits are modelled by what the split yields:  *)
(* a ledger key is the sequence of its ':'-separated fields, so that       *)
(* format!("app:{comm}:{pid}:{start_at}:{today}") is the concatenation of  *)
(* field sequences and key.split(':') is the sequence itself.              *)
(* Time is the wall clock in seconds; a calendar day has DayLen seconds.   *)
(***************************************************************************)
EXTENDS Integers, Sequences, FiniteSets, TLC

VARIABLES
    cfg,          \* Args after parsing: limit, warn_before, build profile, patterns
    apps,         \* main's `apps`: HashMap<String, u64>, key -> seconds
    file,         \* the apps file: the set of its lines
    warned,       \* main's `warned`: the date of the last warning, NoDate for ""
    now,          \* the last value read from the wall clock
    pc,           \* main's position: "list", "scan", "exited", "panicked", "call", "done"
    windows,      \* the windows of the current tick still to be processed
    ev,           \* what the last step did (observation only)
    warn_count,   \* history: per date, how often send_stop_warning was called
    over_count,   \* history: per date, how many qualifying ticks computed total >= limit
    args,         \* the argument of a function applied on its own
    ret           \* the result of a function applied on its own

vars == <<cfg, apps, file, warned, now, pc, windows, ev, warn_count, over_count, args, ret>>

---------------------------------------------------------------------------
(* Bounds *)

DayLen == 200        \* seconds per calendar day (scaled)
U64Mod == 1000000    \* 2^64 (scaled): u64 values are 0 .. U64Mod - 1
I64Min == 500000     \* -i64::MIN (scaled): half of the u64 range
MaxLimit == 2        \* --limit; --warn-before is drawn from MaxLimit - 1 .. MaxLimit + 1
MaxSecs == 2         \* etimes reported by ps is drawn from 0 .. MaxSecs
MaxDrift == 1        \* seconds the clock may advance between two reads of one sample
MaxStep == 1         \* seconds the clock may advance during one sleep
MaxAhead == 0        \* the run is followed until MaxAhead seconds past midnight
MaxEntries == 1      \* the ledger is followed up to this many keys
MaxWindows == 2      \* windows returned by one list_windows call, all different
MaxStart == 2        \* start epochs of drawn intervals are 0 .. MaxStart
MaxLen == 2          \* lengths of drawn intervals are 0 .. MaxLen
MaxIntervals == 3    \* intervals (ledger entries) of one drawn input
MaxLines == 3        \* lines of a drawn apps file
ScenarioEnd == 105   \* Scenario A is followed until this elapsed value

U64Max == U64Mod - 1
StartNow == DayLen - 1
MaxNow == DayLen + MaxAhead
NoDate == -1
Days == 0 .. (MaxNow \div DayLen)

Min(a, b) == IF a < b THEN a ELSE b
Max(a, b) == IF a > b THEN a ELSE b

---------------------------------------------------------------------------
(* Text fields *)

Num(n) == [kind |-> "num", n |-> n, s |-> ""]      \* a decimal rendering of n
Txt(s) == [kind |-> "txt", n |-> 0, s |-> s]       \* any other text without ':'
Date(d) == [kind |-> "date", n |-> d, s |-> ""]    \* "%Y-%m-%d" of day d

\* str::parse::<u64>: a decimal number in 0 ..= u64::MAX, no sign '-'
ParsesU64(f) == f.kind = "num" /\ f.n >= 0 /\ f.n <= U64Max

\* chrono::Local::now().format("%Y-%m-%d") of a clock value
Today(t) == t \div DayLen

\* u64::saturating_add, u64::saturating_sub, i64::saturating_sub_unsigned
SatAdd(a, b) == IF a + b > U64Max THEN U64Max ELSE a + b
SatSub(a, b) == IF a < b THEN 0 ELSE a - b
SatSubUnsigned(a, b) == IF a - b < -I64Min THEN -I64Min ELSE a - b

None == <<>>
Some(x) == <<x>>

---------------------------------------------------------------------------
(* parse_key *)

parse_key(key) ==
    IF /\ Len(key) >= 5
       /\ key[1] = Txt("app")
       /\ ParsesU64(key[4])
    THEN Some([app |-> key[2], start |-> key[4].n, date |-> key[5]])
    ELSE None

---------------------------------------------------------------------------
(* merge_intervals *)

\* intervals.sort_unstable_by_key(|&(s, _)| s): insertion of x into a sorted list
RECURSIVE InsertByStart(_, _)
InsertByStart(x, sorted) ==
    IF sorted = <<>> THEN <<x>>
    ELSE IF x[1] < Head(sorted)[1] THEN <<x>> \o sorted
    ELSE <<Head(sorted)>> \o InsertByStart(x, Tail(sorted))

\* faulty variant: the list is swept unsorted
SortByStartNoSort(intervals) == intervals
RECURSIVE SortByStart(_)
SortByStart(intervals) ==
    IF intervals = <<>> THEN <<>>
    ELSE InsertByStart(Head(intervals), SortByStart(Tail(intervals)))

\* faulty variant: the end is overwritten without the comparison
ExtendNoMax(cur, e) == <<cur[1], e>>
\* lines 137-139: cur.1 = e when e > cur.1
Extend(cur, e) == IF e > cur[2] THEN <<cur[1], e>> ELSE cur

\* faulty variant: an interval that starts at the end of `cur` is kept apart
StartsAtOrAfterEnd(s, cur) == s >= cur[2]
\* line 131: s > cur.1
StartsAfterEnd(s, cur) == s > cur[2]

\* the sweep of lines 130-142 over the rest of the sorted list
RECURSIVE Sweep(_, _, _)
Sweep(rest, cur, merged) ==
    IF rest = <<>> THEN Append(merged, cur)
    ELSE LET s == Head(rest)[1]
             e == Head(rest)[2]
         IN  IF StartsAfterEnd(s, cur)
             THEN Sweep(Tail(rest), <<s, e>>, Append(merged, cur))
             ELSE Sweep(Tail(rest), Extend(cur, e), merged)

merge_intervals(intervals) ==
    IF intervals = <<>> THEN intervals
    ELSE LET sorted == SortByStart(intervals)
         IN  Sweep(Tail(sorted), sorted[1], <<>>)

\* merged.iter().map(|&(s, e)| e - s).sum()
RECURSIVE SumLengths(_)
SumLengths(merged) ==
    IF merged = <<>> THEN 0
    ELSE (Head(merged)[2] - Head(merged)[1]) + SumLengths(Tail(merged))

---------------------------------------------------------------------------
(* sum_seconds_for_today *)

\* the keys that pass lines 152-158 for the date `today`
CountedKeys(a, today) ==
    { key \in DOMAIN a :
        /\ Len(key) >= 2 /\ key[1] = Txt("app")          \* starts_with("app:")
        /\ parse_key(key) # None
        /\ parse_key(key)[1].date = Date(today) }

\* the intervals pushed at lines 160-161, in an iteration order of the map
RECURSIVE IntervalsOf(_, _)
IntervalsOf(a, keys) ==
    IF keys = {} THEN <<>>
    ELSE LET key == CHOOSE k \in keys : TRUE
             start == parse_key(key)[1].start
         IN  <<<<start, SatAdd(start, a[key])>>>> \o IntervalsOf(a, keys \ {key})

\* `today` is the date of the clock value read at line 147
sum_seconds_for_today(a, today) ==
    SumLengths(merge_intervals(IntervalsOf(a, CountedKeys(a, today))))

---------------------------------------------------------------------------
(* The environment of one run *)

Pids == {1, 2}
Comms == {<<Txt("game")>>}
Commands == {"game --fullscreen", "vim notes"}
\* WindowInfo values a lister may return: two windows of one process
Windows == {[pid |-> 1, title |-> "Game"], [pid |-> 1, title |-> "Doc"]}
WindowLists ==
    { ws \in UNION { [1 .. n -> Windows] : n \in 0 .. MaxWindows } :
        \A i, j \in DOMAIN ws : i # j => ws[i] # ws[j] }

\* a compiled Regex is the set of strings it matches
CmdPattern == Some({"game --fullscreen"})
TitlePattern == Some({"Game"})
\* --cmd-pattern alone or --title-pattern alone
PatternPairs == {<<CmdPattern, None>>, <<None, TitlePattern>>}

Limits == {MaxLimit}
WarnBefores == (MaxLimit - 1) .. (MaxLimit + 1)

\* overflow checks on (debug profile) or off (release profile)
Builds == {"debug", "release"}

\* the rendering of `ps --no-headers -p pid -o etimes,comm,command`
PsOutputs ==
    {[status |-> st, seconds |-> 0, comm |-> <<>>, command |-> ""] :
        st \in {"exit_nonzero", "unparsable"}}
    \cup
    {[status |-> "ok", seconds |-> n, comm |-> c, command |-> m] :
        n \in 0 .. MaxSecs, c \in Comms, m \in Commands}

\* the clock values of lines 233, 234 and 147 of one sample
ClockReads(t) ==
    { r \in (t .. Min(t + MaxDrift, MaxNow)) \X (t .. Min(t + MaxDrift, MaxNow))
              \X (t .. Min(t + MaxDrift, MaxNow)) :
        r[1] <= r[2] /\ r[2] <= r[3] }

---------------------------------------------------------------------------
(* load_apps, save_apps *)

\* A line of the apps file is what l.splitn(2, ' ') yields: <<key>> when the
\* line has no space, <<key, rest>> otherwise.
\* A line whose bytes are not valid UTF-8: BufRead::lines yields Err for it.
InvalidUtf8 == << <<[kind |-> "bytes", n |-> 0, s |-> ""]>> >>

\* lines 74-83: None is the Err returned by `line?`, Some(map) is Ok(map)
RECURSIVE LoadLines(_, _)
LoadLines(lines, map) ==
    IF lines = <<>> THEN Some(map)
    ELSE LET l == Head(lines)
         IN  IF l = InvalidUtf8 THEN None
             ELSE IF Len(l) = 2 /\ ParsesU64(l[2])
             THEN LoadLines(Tail(lines),
                            [k \in DOMAIN map \cup {l[1]} |->
                                IF k = l[1] THEN l[2].n ELSE map[k]])
             ELSE LoadLines(Tail(lines), map)

EmptyMap == [k \in {} |-> 0]

\* the file is absent (then created empty) exactly when it has no lines here
load_apps(f) == LoadLines(f, EmptyMap)

\* format!("{k} {v}\n") for each entry, in an iteration order of the map
RECURSIVE LinesOf(_, _)
LinesOf(a, keys) ==
    IF keys = {} THEN <<>>
    ELSE LET k == CHOOSE x \in keys : TRUE
         IN  <<<<k, Num(a[k])>>>> \o LinesOf(a, keys \ {k})

\* fs::write creates or truncates the file, then writes the text
WriteOutcomes == {"ok", "not_opened", "truncated"}
save_apps(old, a, outcome) ==
    CASE outcome = "ok" -> LinesOf(a, DOMAIN a)
      [] outcome = "not_opened" -> old
      [] outcome = "truncated" -> <<>>

---------------------------------------------------------------------------
(* add_to_apps *)

\* faulty variant: a missing pattern matches everything
matches_rx_none_matches(str, regex_opt) ==
    IF regex_opt = None THEN TRUE ELSE str \in regex_opt[1]
matches_rx(str, regex_opt) ==
    IF regex_opt = None THEN FALSE ELSE str \in regex_opt[1]

\* line 238
KeyOf(comm, pid, start_at, today) ==
    <<Txt("app")>> \o comm \o <<Num(pid), Num(start_at), Date(today)>>

\* faulty variant: the observed value always replaces the stored one
LedgerUpdateOverwrite(a, key, seconds) ==
    [apps |-> [k \in DOMAIN a \cup {key} |-> IF k = key THEN seconds ELSE a[k]],
     entry |-> seconds]
\* lines 240-252: the new map and the value `entry`
LedgerUpdate(a, key, seconds) ==
    IF key \notin DOMAIN a
    THEN [apps |-> [k \in DOMAIN a \cup {key} |-> IF k = key THEN seconds ELSE a[k]],
          entry |-> seconds]
    ELSE LET delta == SatSub(seconds, a[key])
             new == SatAdd(a[key], delta)
         IN  [apps |-> [a EXCEPT ![key] = new], entry |-> new]

\* `limit - warn_before` on u64 (line 259): None when the subtraction panics
WarnFloor(limit, warn_before, build) ==
    IF warn_before <= limit THEN Some(limit - warn_before)
    ELSE IF build = "debug" THEN None
    ELSE Some(limit - warn_before + U64Mod)

\* faulty variant: the upper end of the warning window is not checked
ShouldWarnAboveFloor(total, floor, limit, w, today) ==
    total > floor /\ w # today
\* faulty variant: `warned` is not consulted
ShouldWarnIgnoringWarned(total, floor, limit, w, today) ==
    total > floor /\ total < limit
\* line 259 once `limit - warn_before` has the value floor
ShouldWarn(total, floor, limit, w, today) ==
    total > floor /\ total < limit /\ w # today
\* faulty variant: the limit itself is not enough
ShouldKillStrict(total, limit) == total > limit
\* line 262
ShouldKill(total, limit) == total >= limit

NoEv ==
    [op |-> "none", pid |-> 0, title |-> "", ps |-> "", seconds |-> 0, command |-> "",
     matched |-> FALSE, key_day |-> NoDate, sum_day |-> NoDate, total |-> 0,
     warn |-> FALSE, remaining |-> 0, notify_ok |-> FALSE, kill |-> FALSE,
     kill_pid |-> 0, write |-> "", warned_before |-> NoDate, result |-> "",
     key |-> <<>>]

Bump(n) == Min(n + 1, 2)

\* One call of add_to_apps for the window `win`, with what the outside world
\* answers: the ps output, the three clock reads, the outcome of the file write
\* and of notify-send.  The `?` of line 317 ends main when the call returns Err.
add_to_apps(win, ps, r, write, notify_ok) ==
    LET e0 == [NoEv EXCEPT !.op = "add", !.pid = win.pid, !.title = win.title,
                           !.ps = ps.status, !.command = ps.command]
        match_cmd == matches_rx(ps.command, cfg.cmd_rx)
        match_title == matches_rx(win.title, cfg.title_rx)
        today == Today(r[1])
        start_at == SatSubUnsigned(r[2], ps.seconds)
        key == KeyOf(ps.comm, win.pid, start_at, today)
        upd == LedgerUpdate(apps, key, ps.seconds)
        sum_day == Today(r[3])
        total == sum_seconds_for_today(upd.apps, sum_day)
        floor == WarnFloor(cfg.limit, cfg.warn_before, cfg.build)
        e1 == [e0 EXCEPT !.matched = TRUE, !.seconds = ps.seconds, !.key_day = today, !.sum_day = sum_day,
                         !.total = total, !.write = write, !.warned_before = warned,
                         !.key = key]
    IN
    IF ps.status # "ok"
    THEN \* lines 191-212: Err before anything is changed
         /\ pc' = "exited"
         /\ ev' = [e0 EXCEPT !.result = "err"]
         /\ UNCHANGED <<apps, file, warned, now, windows, warn_count, over_count>>
    ELSE IF ~match_cmd /\ ~match_title
    THEN \* line 229: Ok(false)
         /\ windows' = Tail(windows)
         /\ ev' = [e0 EXCEPT !.result = "ok_false"]
         /\ UNCHANGED <<apps, file, warned, now, pc, warn_count, over_count>>
    ELSE /\ Cardinality(DOMAIN upd.apps) <= MaxEntries
         /\ apps' = upd.apps
         /\ file' = save_apps(file, upd.apps, write)
         /\ now' = r[3]
         /\ over_count' = IF total >= cfg.limit
                          THEN [over_count EXCEPT ![sum_day] = Bump(@)]
                          ELSE over_count
         /\ IF floor = None
            THEN \* line 259: attempt to subtract with overflow
                 /\ pc' = "panicked"
                 /\ ev' = [e1 EXCEPT !.result = "panic"]
                 /\ UNCHANGED <<warned, windows, warn_count>>
            ELSE IF ShouldWarn(total, floor[1], cfg.limit, warned, today)
            THEN \* lines 260-261
                 /\ warn_count' = [warn_count EXCEPT ![today] = Bump(@)]
                 /\ IF notify_ok
                    THEN /\ warned' = today
                         /\ windows' = Tail(windows)
                         /\ pc' = pc
                         /\ ev' = [e1 EXCEPT !.warn = TRUE, !.notify_ok = TRUE,
                                     !.remaining = cfg.limit - total, !.result = "ok_true"]
                    ELSE /\ pc' = "exited"
                         /\ ev' = [e1 EXCEPT !.warn = TRUE,
                                     !.remaining = cfg.limit - total, !.result = "err"]
                         /\ UNCHANGED <<warned, windows>>
            ELSE \* lines 262-271
                 /\ windows' = Tail(windows)
                 /\ ev' = [e1 EXCEPT !.kill = ShouldKill(total, cfg.limit),
                             !.kill_pid = IF ShouldKill(total, cfg.limit)
                                          THEN win.pid ELSE 0,
                             !.result = "ok_true"]
                 /\ UNCHANGED <<warned, pc, warn_count>>

---------------------------------------------------------------------------
(* main *)

\* a first line that does not parse, then the entry of an earlier run
InitFiles ==
    { <<>>,
      << <<<<Txt("garbage")>>>>,
         <<KeyOf(<<Txt("game")>>, 1, StartNow - 1, Today(StartNow)), Num(1)>> >> }

\* Args: ArgGroup "pattern" requires one of the two patterns
Configs ==
    { [limit |-> l, warn_before |-> w, build |-> b, cmd_rx |-> p[1], title_rx |-> p[2]] :
        l \in Limits, w \in WarnBefores, b \in Builds, p \in PatternPairs }

\* lines 275-301: the state when the loop is entered
Init ==
    /\ cfg \in Configs
    /\ file \in InitFiles
    /\ load_apps(file) # None
    /\ apps = load_apps(file)[1]
    /\ warned = NoDate
    /\ now = StartNow
    /\ pc = "list"
    /\ windows = <<>>
    /\ ev = NoEv
    /\ warn_count = [d \in Days |-> 0]
    /\ over_count = [d \in Days |-> 0]
    /\ args = <<>>
    /\ ret = <<>>

\* line 303, Ok(windows)
ListWindowsOk ==
    /\ pc = "list"
    /\ \E ws \in WindowLists : windows' = ws
    /\ pc' = "scan"
    /\ ev' = [NoEv EXCEPT !.op = "list"]
    /\ UNCHANGED <<cfg, apps, file, warned, now, warn_count, over_count, args, ret>>

\* line 320, Err(e): logged, the tick has no windows
ListWindowsErr ==
    /\ pc = "list"
    /\ windows' = <<>>
    /\ pc' = "scan"
    /\ ev' = [NoEv EXCEPT !.op = "list_err"]
    /\ UNCHANGED <<cfg, apps, file, warned, now, warn_count, over_count, args, ret>>

\* backend.rs lines 31, 38: KdotoolLister unwraps a failed kdotool call
ListWindowsPanic ==
    /\ pc = "list"
    /\ pc' = "panicked"
    /\ ev' = [NoEv EXCEPT !.op = "list_panic"]
    /\ UNCHANGED <<cfg, apps, file, warned, now, windows, warn_count, over_count, args, ret>>

\* the sample reaches line 232
Qualifies(win, ps) ==
    matches_rx(ps.command, cfg.cmd_rx) \/ matches_rx(win.title, cfg.title_rx)

\* lines 305-318: the next window of the tick
AddToApps ==
    /\ pc = "scan"
    /\ windows # <<>>
    /\ \E ps \in PsOutputs :
          IF ps.status = "ok" /\ Qualifies(Head(windows), ps)
          THEN \E r \in ClockReads(now), write \in WriteOutcomes, notify_ok \in BOOLEAN :
                  add_to_apps(Head(windows), ps, r, write, notify_ok)
          ELSE add_to_apps(Head(windows), ps, <<now, now, now>>, "ok", TRUE)
    /\ UNCHANGED <<cfg, args, ret>>

\* line 324
Sleep ==
    /\ pc = "scan"
    /\ windows = <<>>
    /\ \E d \in 1 .. MaxStep : now + d <= MaxNow /\ now' = now + d
    /\ pc' = "list"
    /\ ev' = [NoEv EXCEPT !.op = "sleep"]
    /\ UNCHANGED <<cfg, apps, file, warned, windows, warn_count, over_count, args, ret>>

Next ==
    \/ ListWindowsOk
    \/ ListWindowsErr
    \/ ListWindowsPanic
    \/ AddToApps
    \/ Sleep

Spec == Init /\ [][Next]_vars

---------------------------------------------------------------------------
(* Functions applied on their own: the inputs are drawn by the initial state *)

\* the loop's variables while a function is applied on its own
Idle ==
    /\ cfg = [limit |-> MaxLimit, warn_before |-> MaxLimit - 1, build |-> "release",
              cmd_rx |-> CmdPattern, title_rx |-> None]
    /\ file = <<>>
    /\ warned = NoDate
    /\ windows = <<>>
    /\ ev = NoEv
    /\ warn_count = [d \in Days |-> 0]
    /\ over_count = [d \in Days |-> 0]

IdleVars == <<cfg, file, warned, windows, ev, warn_count, over_count>>

\* drawn intervals [start, start + len)
Intervals == { <<st, st + ln>> : st \in 0 .. MaxStart, ln \in 0 .. MaxLen }
IntervalLists == UNION { [1 .. n -> Intervals] : n \in 0 .. MaxIntervals }

InitMerge ==
    /\ Idle /\ apps = EmptyMap /\ now = StartNow
    /\ pc = "call"
    /\ args \in IntervalLists
    /\ ret = <<>>

MergeCall ==
    /\ pc = "call"
    /\ ret' = merge_intervals(args)
    /\ pc' = "done"
    /\ UNCHANGED <<IdleVars, apps, now, args>>

SpecMerge == InitMerge /\ [][MergeCall]_vars

\* drawn ledgers: entries of today, entries of yesterday, an unrelated entry
SumToday == Today(DayLen)
SumKeys ==
    { KeyOf(c, p, st, SumToday) : c \in Comms, p \in Pids, st \in 0 .. MaxStart }
    \cup { KeyOf(c, 1, st, SumToday - 1) : c \in Comms, st \in 0 .. MaxStart }
    \cup { <<Txt("note")>> }
\* Scenario B: the intervals [0,50) and [40,90) of today
ScenarioB ==
    [k \in {KeyOf(<<Txt("game")>>, 1, 0, SumToday), KeyOf(<<Txt("game")>>, 1, 40, SumToday)}
        |-> 50]
SumLedgers ==
    { ScenarioB } \cup
    UNION { [ks -> 0 .. MaxLen] :
              ks \in { x \in SUBSET SumKeys : Cardinality(x) <= MaxIntervals } }

InitSum ==
    /\ Idle /\ apps \in SumLedgers /\ now = SumToday * DayLen
    /\ pc = "call"
    /\ args = <<>>
    /\ ret = <<>>

\* line 147 reads the clock, lines 149-168 compute the total
SumCall ==
    /\ pc = "call"
    /\ \E t \in now .. (now + MaxDrift) :
          /\ now' = t
          /\ ret' = sum_seconds_for_today(apps, Today(t))
    /\ pc' = "done"
    /\ UNCHANGED <<IdleVars, apps, args>>

SpecSum == InitSum /\ [][SumCall]_vars

\* keys and readings for updates of the ledger
LedgerKeys == { KeyOf(c, p, 0, d) : c \in Comms, p \in Pids, d \in 0 .. 1 }
Readings == (0 .. MaxSecs) \cup {U64Max}

InitLedger ==
    /\ Idle /\ apps = EmptyMap /\ now = StartNow
    /\ pc = "call"
    /\ args = <<>>
    /\ ret = <<>>

\* lines 240-252 for a key and an observed value
UpdateCall ==
    /\ pc = "call"
    /\ \E key \in LedgerKeys, seconds \in Readings :
          /\ args' = <<key, seconds>>
          /\ apps' = LedgerUpdate(apps, key, seconds).apps
          /\ ret' = LedgerUpdate(apps, key, seconds).entry
    /\ UNCHANGED <<IdleVars, now, pc>>

SpecLedger == InitLedger /\ [][UpdateCall]_vars

\* lines of an apps file: an entry, the same key with another value, a second
\* key, a line without a space, "<key>  5" (two spaces), "<key> -1", "<key> x",
\* and a line that is not text
LoadKey == KeyOf(<<Txt("game")>>, 1, 0, 0)
LoadLineSet ==
    { <<LoadKey, Num(1)>>, <<LoadKey, Num(2)>>, <<<<Txt("note")>>, Num(U64Max)>>,
      <<<<Txt("garbage")>>>>, <<LoadKey, Txt(" 5")>>, <<LoadKey, Num(-1)>>,
      <<LoadKey, Txt("x")>>, InvalidUtf8 }
LoadFiles == UNION { [1 .. n -> LoadLineSet] : n \in 0 .. MaxLines }

InitLoad ==
    /\ cfg = [limit |-> MaxLimit, warn_before |-> MaxLimit - 1, build |-> "release",
              cmd_rx |-> CmdPattern, title_rx |-> None]
    /\ file \in LoadFiles
    /\ apps = EmptyMap
    /\ warned = NoDate
    /\ now = StartNow
    /\ pc = "call"
    /\ windows = <<>>
    /\ ev = NoEv
    /\ warn_count = [d \in Days |-> 0]
    /\ over_count = [d \in Days |-> 0]
    /\ args = <<>>
    /\ ret = <<>>

\* line 288: the file exists and is read
LoadCall ==
    /\ pc = "call"
    /\ ret' = load_apps(file)
    /\ apps' = IF load_apps(file) = None THEN apps ELSE load_apps(file)[1]
    /\ pc' = "done"
    /\ UNCHANGED <<cfg, file, warned, now, windows, ev, warn_count, over_count, args>>

SpecLoad == InitLoad /\ [][LoadCall]_vars

\* command names as ps prints them: "game", "game:main", "a:b:c"
KeyComms ==
    Comms \cup { <<Txt("game"), Txt("main")>>, <<Txt("a"), Txt("b"), Txt("c")>> }
\* clock values: the first seconds of the epoch and the seconds around midnight
KeyNows == (0 .. MaxStart) \cup {StartNow, DayLen}

InitKey ==
    /\ Idle /\ apps = EmptyMap /\ now \in KeyNows
    /\ pc = "call"
    /\ args = <<>>
    /\ ret = <<>>

\* lines 233-238 with one clock value, then parse_key and the filter of
\* lines 152-158 on the key just built
KeyCall ==
    /\ pc = "call"
    /\ \E comm \in KeyComms, pid \in Pids, seconds \in Readings :
          LET start_at == SatSubUnsigned(now, seconds)
              key == KeyOf(comm, pid, start_at, Today(now))
              a == LedgerUpdate(EmptyMap, key, seconds).apps
          IN  /\ args' = [comm |-> comm, pid |-> pid, seconds |-> seconds]
              /\ ret' = [key |-> key, start_at |-> start_at, parsed |-> parse_key(key),
                         counted |-> key \in CountedKeys(a, Today(now))]
    /\ pc' = "done"
    /\ UNCHANGED <<IdleVars, apps, now>>

SpecKey == InitKey /\ [][KeyCall]_vars

---------------------------------------------------------------------------
(* Scenario A: limit 100, warn_before 20, one matched session started at 0 *)

InitA ==
    /\ cfg \in { [limit |-> 100, warn_before |-> 20, build |-> b,
                   cmd_rx |-> CmdPattern, title_rx |-> None] : b \in Builds }
    /\ file = <<>>
    /\ load_apps(file) # None
    /\ apps = load_apps(file)[1]
    /\ warned = NoDate
    /\ now = 0
    /\ pc = "list"
    /\ windows = <<>>
    /\ ev = NoEv
    /\ warn_count = [d \in Days |-> 0]
    /\ over_count = [d \in Days |-> 0]
    /\ args = <<>>
    /\ ret = <<>>

\* the lister reports the session's window
ScenarioList ==
    /\ pc = "list"
    /\ windows' = <<[pid |-> 1, title |-> "Game"]>>
    /\ pc' = "scan"
    /\ ev' = [NoEv EXCEPT !.op = "list"]
    /\ UNCHANGED <<cfg, apps, file, warned, now, warn_count, over_count, args, ret>>

\* ps reports the elapsed time since epoch 0, so the derived start stays 0;
\* the apps file is written without failure
ScenarioSample ==
    /\ pc = "scan"
    /\ windows # <<>>
    /\ \E notify_ok \in BOOLEAN :
          add_to_apps(Head(windows),
                      [status |-> "ok", seconds |-> now, comm |-> <<Txt("game")>>,
                       command |-> "game --fullscreen"],
                      <<now, now, now>>, "ok", notify_ok)
    /\ UNCHANGED <<cfg, args, ret>>

\* any time may pass between two ticks
ScenarioSleep ==
    /\ pc = "scan"
    /\ windows = <<>>
    /\ \E t \in (now + 1) .. ScenarioEnd : now' = t
    /\ pc' = "list"
    /\ ev' = [NoEv EXCEPT !.op = "sleep"]
    /\ UNCHANGED <<cfg, apps, file, warned, windows, warn_count, over_count, args, ret>>

NextA == ScenarioList \/ ScenarioSample \/ ScenarioSleep

SpecA == InitA /\ [][NextA]_vars

---------------------------------------------------------------------------
(* Properties of the sampling loop (Spec) *)

Sampled == ev.op = "add" /\ ev.ps = "ok"
Qualifying == Sampled /\ ev.matched
InWindow(total) == cfg.limit - cfg.warn_before < total /\ total < cfg.limit

\* C1: in one run the warning is sent at most once per date: once a call of
\* add_to_apps has sent it on date D, no later call whose date is D sends it again.
C1_WarnOncePerDate == \A d \in Days : warn_count[d] <= 1

\* a later tick of the day of the warning, inside the warning window, that is silent
C1_Witness ==
    /\ Qualifying /\ ~ev.warn /\ InWindow(ev.total)
    /\ ev.warned_before = ev.key_day
    /\ warn_count[ev.key_day] = 1

C3_LoopSurvivesNotifyFailure ==
    (ev.op = "add" /\ ev.warn /\ ~ev.notify_ok) => pc = "scan"

\* C4: a failed process-info lookup skips only that sample: the loop goes on
\* with the remaining windows of the tick and with later ticks.
C4_LoopSurvivesPsFailure ==
    (ev.op = "add" /\ ev.ps # "ok") => pc = "scan"

\* the patterns of the run as the specification reads them: a missing pattern
\* matches nothing
NeitherMatches ==
    /\ (cfg.cmd_rx = None \/ ev.command \notin cfg.cmd_rx[1])
    /\ (cfg.title_rx = None \/ ev.title \notin cfg.title_rx[1])

\* C8: a sample that neither pattern matches leaves the ledger, the apps file
\* and the warn-state as they were, sends no warning and requests no termination.
C8_UnmatchedChangesNothing ==
    [][ (ev'.op = "add" /\ ev'.ps = "ok" /\ NeitherMatches')
        => (/\ apps' = apps /\ file' = file /\ warned' = warned
            /\ ~ev'.warn /\ ~ev'.kill /\ ~ev'.matched) ]_vars

\* an unmatched sample of a window whose pattern is missing, with a ledger to keep
C8_Witness ==
    /\ Sampled /\ NeitherMatches /\ apps # EmptyMap
    /\ (cfg.cmd_rx = None \/ cfg.title_rx = None)

\* C10: for every limit and warn_before, also warn_before > limit, a qualifying
\* tick warns, with remaining = limit - total, exactly when
\* limit - warn_before < total < limit as integers and warned_date # today, and
\* the evaluation of the threshold never fails.
C10_WindowAsIntegers ==
    Qualifying =>
        /\ ev.result # "panic"
        /\ ev.warn <=> (InWindow(ev.total) /\ ev.warned_before # ev.key_day)
        /\ ev.warn => ev.remaining = cfg.limit - ev.total

\* C14: at the end of every qualifying sample whose file write succeeds the
\* records of the apps file are those of the in-memory ledger; when the write
\* fails the in-memory ledger keeps the update and the loop continues.
C14_FlushedAndLoopContinues ==
    Qualifying =>
        /\ ev.write = "ok" =>
               (load_apps(file) = Some(apps) /\ Len(file) = Cardinality(DOMAIN apps))
        /\ ev.write # "ok" =>
               /\ ev.key \in DOMAIN apps /\ apps[ev.key] >= ev.seconds
               /\ pc = "scan"

\* C16: no single call of add_to_apps both sends the warning and requests
\* termination: the warning is decided first and only below the limit, the
\* termination only when no warning was due and the limit is reached.
C16_WarnXorKill ==
    Qualifying =>
        /\ ~(ev.warn /\ ev.kill)
        /\ ev.warn => ev.total < cfg.limit
        /\ ev.kill => ev.total >= cfg.limit

\* the limit is reached on a date without a warning, above the lower end of the
\* warning window: termination is requested and no warning is sent
C16_Witness ==
    /\ Qualifying /\ ev.kill /\ ~ev.warn
    /\ cfg.warn_before <= cfg.limit /\ ev.total > cfg.limit - cfg.warn_before
    /\ ev.warned_before # ev.key_day

\* C17: within one qualifying sample the date written into the key and the
\* `today` of the total agree, so the entry just inserted or updated is among
\* the entries counted in the total of the same call, also when the clock
\* advances across midnight while the sample is processed.
C17_OneClockRead ==
    Qualifying =>
        /\ ev.key_day = ev.sum_day
        /\ ev.key \in CountedKeys(apps, ev.sum_day)

\* C18: in a run that starts with `warned` empty, whenever a qualifying tick
\* requests termination on date D, a warning was sent on an earlier tick of
\* date D, for any ledger loaded at start and any growth of the total.
C18_WarnBeforeKill ==
    (Qualifying /\ ev.kill) => warn_count[ev.key_day] >= 1

\* C19: on every qualifying tick the total of today does not exceed the seconds
\* elapsed since the start of today's date, also for a session that started on
\* a previous day and is first observed after the date rollover.
C19_TotalWithinToday ==
    Qualifying => ev.total <= now - ev.sum_day * DayLen

---------------------------------------------------------------------------
(* Properties of sum_seconds_for_today (SpecSum) *)

\* the entries whose key carries the date of the clock value read by the call
EntriesOfToday ==
    { k \in DOMAIN apps : Len(k) = 5 /\ k[1] = Txt("app") /\ k[5] = Date(Today(now)) }

\* the seconds of [start, start + stored)
Covered(k) == { x \in k[4].n .. (k[4].n + apps[k] - 1) : TRUE }

\* C5: sum_seconds_for_today returns the size of the union of the intervals
\* [start, start + stored_seconds) of exactly the entries dated today:
\* overlapping or identical intervals count once, no entry gives 0.
C5_SumIsCoveredTime ==
    pc = "done" => ret = Cardinality(UNION { Covered(k) : k \in EntriesOfToday })

\* Scenario B: [0,50) and [40,90) give 90
C5_Witness == pc = "done" /\ apps = ScenarioB /\ ret = 90

---------------------------------------------------------------------------
(* Properties of merge_intervals (SpecMerge) *)

MergedTotal == SumLengths(ret)
LengthSum == SumLengths(args)

Overlap(a, b) == Max(a[1], b[1]) < Min(a[2], b[2])
Touch(a, b) == a[2] = b[1] \/ b[2] = a[1]
SomeTwo(R(_, _)) == \E i, j \in DOMAIN args : i # j /\ R(args[i], args[j])
OverlapOrTouch(a, b) == Overlap(a, b) \/ Touch(a, b)

AllPositive == \A i \in DOMAIN args : args[i][1] < args[i][2]

\* C6 as stated, already for intervals of positive length: the merged total is
\* <= the sum of the lengths, and equal to it iff no two of the intervals overlap
\* or touch.
C6_EqualIffNoOverlapOrTouch ==
    (pc = "done" /\ AllPositive) =>
        /\ MergedTotal <= LengthSum
        /\ (MergedTotal = LengthSum) <=> ~SomeTwo(OverlapOrTouch)

\* C6 as amended: the merged total is <= the sum of the lengths, and equal to it
\* iff no two of the intervals overlap (share a second); intervals that only
\* touch are merged and still give equality.
C6_EqualIffNoOverlap ==
    pc = "done" =>
        /\ MergedTotal <= LengthSum
        /\ (MergedTotal = LengthSum) <=> ~SomeTwo(Overlap)

\* two intervals of positive length that touch, merged into one, with equality
C6_Witness ==
    /\ pc = "done" /\ Len(args) = 2 /\ Len(ret) = 1
    /\ args[1][2] = args[2][1] /\ args[1][1] < args[1][2] /\ args[2][1] < args[2][2]
    /\ MergedTotal = LengthSum

\* the orders in which a caller may pass the same intervals
Reorderings(seq) ==
    { [i \in DOMAIN seq |-> seq[p[i]]] : p \in Permutations(DOMAIN seq) }

\* C12: the result of merge_intervals does not depend on the order of the input:
\* every permutation of the list gives the same merged intervals, hence the
\* same total.
C12_OrderInvariant ==
    pc = "done" =>
        \A q \in Reorderings(args) :
            /\ merge_intervals(q) = ret
            /\ SumLengths(merge_intervals(q)) = MergedTotal

\* three intervals, two of them with the same start and different ends, merged
C12_Witness ==
    /\ pc = "done" /\ Len(args) = 3 /\ Len(ret) = 2
    /\ args[1][1] = args[3][1] /\ args[1][2] < args[3][2]
    /\ args[2][1] > args[3][2]

\* C13: merge_intervals is idempotent, and its output is sorted by start with
\* each interval starting strictly after the end of the previous one.
C13_Idempotent ==
    pc = "done" =>
        /\ merge_intervals(ret) = ret
        /\ \A i \in DOMAIN ret : i > 1 => ret[i][1] > ret[i - 1][2]

\* an unsorted input, two of its intervals touching: two intervals come out
C13_Witness ==
    /\ pc = "done" /\ Len(args) = 3 /\ Len(ret) = 2
    /\ args[2][1] < args[2][2] /\ args[2][2] = args[3][1]
    /\ args[1][1] > args[3][2]
    /\ ret = << <<args[2][1], args[3][2]>>, args[1] >>

---------------------------------------------------------------------------
(* Properties of the ledger update (SpecLedger) *)

\* C7: over any sequence of updates the value stored for a key never decreases,
\* and after an update of a key it is the maximum of the value stored before
\* and the observed value (the observed value when the key is new).
C7_UpdateIsMax ==
    [][ /\ \A k \in DOMAIN apps : k \in DOMAIN apps' /\ apps'[k] >= apps[k]
        /\ apps'[args'[1]] = IF args'[1] \in DOMAIN apps
                             THEN Max(apps[args'[1]], args'[2])
                             ELSE args'[2]
        /\ ret' = apps'[args'[1]] ]_vars

\* a reading smaller than the stored value has been observed and ignored
C7_Witness == args # <<>> /\ args[2] < apps[args[1]] /\ ret = apps[args[1]]

---------------------------------------------------------------------------
(* Properties of Scenario A (SpecA) *)

\* C9 as stated: the tick reporting elapsed = 85 sends the warning with
\* remaining = 15, no second warning is sent that day, and the tick reporting
\* elapsed = 100 requests termination of the pid.
C9_ScenarioA ==
    Qualifying =>
        /\ ev.seconds = 85 => (ev.warn /\ ev.remaining = 15)
        /\ warn_count[ev.key_day] <= 1
        /\ ev.seconds = 100 => (ev.kill /\ ev.kill_pid = ev.pid)

\* C9 as amended: the tick reporting elapsed = 85 sends the warning with
\* remaining = 15 unless an earlier tick of the day (one reporting 81..84) has
\* sent it already; the rest as stated.
C9_ScenarioAFirstInWindow ==
    Qualifying =>
        /\ (ev.seconds = 85 /\ ev.warned_before # ev.key_day)
               => (ev.warn /\ ev.remaining = 15)
        /\ (ev.seconds = 85 /\ ev.warned_before = ev.key_day)
               => (~ev.warn /\ warn_count[ev.key_day] = 1)
        /\ ev.warn => (80 < ev.seconds /\ ev.seconds < 100)
        /\ warn_count[ev.key_day] <= 1
        /\ ev.seconds = 100 => (ev.kill /\ ev.kill_pid = ev.pid)

\* the tick reporting 85 sends the warning with remaining = 15
C9_Witness ==
    Qualifying /\ ev.seconds = 85 /\ ev.warn /\ ev.notify_ok /\ ev.remaining = 15

---------------------------------------------------------------------------
(* Properties of the key (SpecKey) *)

\* C11: for every clock value and every observed elapsed time, also one larger
\* than the clock value, the start written into the key is max(0, now - elapsed):
\* never negative, so parse_key accepts the start field of the key.
C11_StartSaturatesAtZero ==
    (pc = "done" /\ Len(args.comm) = 1) =>
        /\ ret.start_at = Max(0, now - args.seconds)
        /\ ret.parsed # None
        /\ ret.parsed[1].start = ret.start_at

---------------------------------------------------------------------------
(* Properties of load_apps (SpecLoad) *)

\* the lines of the form <key><single space><unsigned integer>
EntryLines == { i \in DOMAIN file :
                  Len(file[i]) = 2 /\ file[i][2].kind = "num" /\ file[i][2].n >= 0 }

\* C15: load_apps never fails on malformed content: for any file made of lines
\* it returns a map with exactly the entries of the lines of the form
\* <key><single space><unsigned integer>; every other line is skipped.
C15_LoadSkipsMalformed ==
    pc = "done" =>
        /\ ret # None
        /\ DOMAIN ret[1] = { file[i][1] : i \in EntryLines }
        /\ \A k \in DOMAIN ret[1] :
              \E i \in EntryLines : file[i][1] = k /\ file[i][2].n = ret[1][k]

\* C20: for every command name reported by ps, also one that contains ':',
\* parse_key of the key built at line 238 returns that command name, the start
\* epoch and the date of the key, so the entry written for today is counted in
\* today's total.  Stated for elapsed <= now, where the start is not negative.
C20_KeyRoundTrip ==
    (pc = "done" /\ args.seconds <= now) =>
        /\ ret.parsed # None
        /\ <<ret.parsed[1].app>> = args.comm
        /\ ret.parsed[1].start = ret.start_at
        /\ ret.parsed[1].date = Date(Today(now))
        /\ ret.counted

====
